---- MODULE Spec2Model ----
(***************************************************************************)
(* Model of src/rust/src/unit.rs: the closed enum BaseUnit, the struct     *)
(* Unit<'a> with its three public fields, the tuple struct Value<'a> and   *)
(* the two implementations of Val::value.                                  *)
(*                                                                         *)
(* BaseUnit instances and Unit instances live at addresses of one address  *)
(* space; a reference (&'a BaseUnit, &self) is the address of its          *)
(* referent.  The clients of the module are modelled by the operations the *)
(* declarations give them: writing an enum variant, writing a Unit         *)
(* literal, assigning to a public field, borrowing a receiver, calling     *)
(* value(), letting a value go out of scope.  The lifetime annotations are *)
(* modelled by the guards the borrow checker enforces.                     *)
(***************************************************************************)
EXTENDS Integers, FiniteSets, Bags, TLC

\* Bounds of the model: addresses an instance can live at, concurrent callers.
MaxAddr == 3
MaxCallers == 2

Addrs == 1..MaxAddr

\* pub enum BaseUnit { Metre, Second, Kilogram }
\* (BaseUnitGrown: the enum with a variant added.)
BaseUnitGrown == {"Metre", "Second", "Kilogram", "Gram"}
BaseUnit == {"Metre", "Second", "Kilogram"}

\* Contents of the String fields the clients write (the empty String included).
Symbols == {"", "m"}
Names == {"", "metre"}

\* pub struct Unit<'a> { pub symbol: String, pub name: String, pub def: &'a BaseUnit }
Unit == [symbol : Symbols, name : Names, def : Addrs]

\* struct Value<'a>(f64, &'a BaseUnit): field 0 is mag, field 1 is ref.
Value == [mag : Int, ref : Addrs]

\* The slot of a call's result before value() has returned into it.
NoValue == [mag |-> 0, ref |-> 0]

\* No call of value() remembered.
NoCall == [recv |-> 0, ret |-> NoValue]

VARIABLES
    base,     \* live BaseUnit instances: address -> variant
    units,    \* live Unit instances: address -> Unit
    calls,    \* the callers at work, a bag of records, one per caller:
              \*   pc    "borrowed" (holds &receiver) or "done" (holds the Value)
              \*   recv  address of the receiver
              \*   alone what value() returns on the receiver at the moment of the borrow
              \*   ret   the Value the call returned
    prev      \* a remembered earlier call: its receiver and what it returned

vars == <<base, units, calls, prev>>

\* impl Val for BaseUnit: fn value(&self) -> Value { Value(1.0, &self) }
\* self is the address of the receiver; &self auto-derefs to it.
\* (BaseUnit_value_other: returns a reference to another address than the receiver's.)
BaseUnit_value_other(self) == [mag |-> 1, ref |-> IF self = 1 THEN MaxAddr ELSE 1]
BaseUnit_value(self) == [mag |-> 1, ref |-> self]

\* impl Val for Unit<'_>: fn value(&self) -> Value { Value(1.0, self.def) }
\* self is the Unit the receiver's address holds.
\* (Unit_value_scaled: a magnitude that depends on the symbol; Unit_value_partial:
\* no Value for a Unit with an empty symbol or name.)
Unit_value_scaled(self) == [mag |-> IF self.symbol = "" THEN 1 ELSE 1000, ref |-> self.def]
Unit_value_partial(self) == IF self.symbol = "" \/ self.name = "" THEN NoValue
                            ELSE [mag |-> 1, ref |-> self.def]
Unit_value(self) == [mag |-> 1, ref |-> self.def]

\* Dynamic dispatch of Val::value on the receiver at address r.
value(r) == IF r \in DOMAIN base THEN BaseUnit_value(r) ELSE Unit_value(units[r])

\* A shared borrow of the object at address r is alive: a caller holds &r for
\* a call, or holds the Value the call returned (the elided lifetime of
\* value(&self) -> Value ties the Value to the borrow of the receiver).
\* (BorrowedNever: borrows that exclude nothing.)
BorrowedNever(r) == FALSE
Borrowed(r) == \E c \in BagToSet(calls) : c.recv = r

\* The BaseUnit at address a is referenced by a Unit (def: &'a BaseUnit).
\* (ReferencedNever: a def that keeps nothing alive.)
ReferencedNever(a) == FALSE
Referenced(a) == \E u \in DOMAIN units : units[u].def = a

\* What a Unit's def may be set to: a live BaseUnit (the type of def is &'a BaseUnit).
DefTargets == DOMAIN base

Init ==
    /\ base = [a \in {} |-> "Metre"]
    /\ units = [u \in {} |-> NoValue]
    /\ calls = EmptyBag
    /\ prev = NoCall

\* A client writes the enum variant v; the instance lives at the free address a.
NewBaseUnit(a, v) ==
    /\ a \in Addrs \ (DOMAIN base \cup DOMAIN units)
    /\ v \in BaseUnit
    /\ base' = [x \in DOMAIN base \cup {a} |-> IF x = a THEN v ELSE base[x]]
    /\ UNCHANGED <<units, calls, prev>>

\* The BaseUnit at address a goes out of scope; the borrow checker allows it
\* only when no reference to it is alive.
DropBaseUnit(a) ==
    /\ a \in DOMAIN base
    /\ ~Referenced(a)
    /\ ~Borrowed(a)
    /\ base' = [x \in DOMAIN base \ {a} |-> base[x]]
    /\ prev' = IF prev.recv = a THEN NoCall ELSE prev
    /\ UNCHANGED <<units, calls>>

\* A client writes the literal Unit { symbol: s, name: n, def: &b }.
\* (NewUnitClobber: the new Unit's fields also land in the Units that share its def.)
NewUnitClobber(u, s, n, b) ==
    /\ u \in Addrs \ (DOMAIN base \cup DOMAIN units)
    /\ b \in DefTargets
    /\ units' = [x \in DOMAIN units \cup {u} |->
                    IF x = u \/ units[x].def = b
                    THEN [symbol |-> s, name |-> n, def |-> b] ELSE units[x]]
    /\ UNCHANGED <<base, calls, prev>>
NewUnit(u, s, n, b) ==
    /\ u \in Addrs \ (DOMAIN base \cup DOMAIN units)
    /\ b \in DefTargets
    /\ units' = [x \in DOMAIN units \cup {u} |->
                    IF x = u THEN [symbol |-> s, name |-> n, def |-> b] ELSE units[x]]
    /\ UNCHANGED <<base, calls, prev>>

\* The Unit at address u goes out of scope.
DropUnit(u) ==
    /\ u \in DOMAIN units
    /\ ~Borrowed(u)
    /\ units' = [x \in DOMAIN units \ {u} |-> units[x]]
    /\ prev' = IF prev.recv = u THEN NoCall ELSE prev
    /\ UNCHANGED <<base, calls>>

\* The owner of the Unit at address u assigns to its public field symbol.
SetSymbol(u, s) ==
    /\ u \in DOMAIN units
    /\ ~Borrowed(u)
    /\ s # units[u].symbol
    /\ units' = [units EXCEPT ![u].symbol = s]
    /\ UNCHANGED <<base, calls, prev>>

\* The owner of the Unit at address u assigns to its public field name.
SetName(u, n) ==
    /\ u \in DOMAIN units
    /\ ~Borrowed(u)
    /\ n # units[u].name
    /\ units' = [units EXCEPT ![u].name = n]
    /\ UNCHANGED <<base, calls, prev>>

\* The owner of the Unit at address u assigns to its public field def.
SetDef(u, b) ==
    /\ u \in DOMAIN units
    /\ ~Borrowed(u)
    /\ b \in DefTargets
    /\ b # units[u].def
    /\ units' = [units EXCEPT ![u].def = b]
    /\ UNCHANGED <<base, calls, prev>>

\* One more caller takes a shared reference to the live object at address r,
\* to call value() on it.
Borrow(r) ==
    /\ BagCardinality(calls) < MaxCallers
    /\ r \in DOMAIN base \cup DOMAIN units
    /\ calls' = calls (+) SetToBag({[pc |-> "borrowed", recv |-> r,
                                     alone |-> value(r), ret |-> NoValue]})
    /\ UNCHANGED <<base, units, prev>>

\* The call of value() of a caller c that holds its receiver runs and returns.
Call(c) ==
    /\ BagIn(c, calls)
    /\ c.pc = "borrowed"
    /\ calls' = (calls (-) SetToBag({c}))
                (+) SetToBag({[c EXCEPT !.pc = "done", !.ret = value(c.recv)]})
    /\ UNCHANGED <<base, units, prev>>

\* The same call, noted down (receiver and returned Value) so that a later call
\* on the receiver can be compared with it.
CallNoted(c) ==
    /\ BagIn(c, calls)
    /\ c.pc = "borrowed"
    /\ calls' = (calls (-) SetToBag({c}))
                (+) SetToBag({[c EXCEPT !.pc = "done", !.ret = value(c.recv)]})
    /\ prev' = [recv |-> c.recv, ret |-> value(c.recv)]
    /\ UNCHANGED <<base, units>>

\* The Value of a caller c goes out of scope, which ends its borrow of the receiver.
Release(c) ==
    /\ BagIn(c, calls)
    /\ c.pc = "done"
    /\ calls' = calls (-) SetToBag({c})
    /\ UNCHANGED <<base, units, prev>>

Next ==
    \/ \E a \in Addrs, v \in BaseUnit : NewBaseUnit(a, v)
    \/ \E a \in Addrs : DropBaseUnit(a)
    \/ \E u \in Addrs, s \in Symbols, n \in Names, b \in Addrs : NewUnit(u, s, n, b)
    \/ \E u \in Addrs : DropUnit(u)
    \/ \E u \in Addrs, s \in Symbols : SetSymbol(u, s)
    \/ \E u \in Addrs, n \in Names : SetName(u, n)
    \/ \E u \in Addrs, b \in Addrs : SetDef(u, b)
    \/ \E r \in Addrs : Borrow(r)
    \/ \E c \in BagToSet(calls) : Call(c)
    \/ \E c \in BagToSet(calls) : Release(c)

Spec == Init /\ [][Next]_vars

\* The same program with the history of calls recorded.
NextHist ==
    \/ Next
    \/ \E c \in BagToSet(calls) : CallNoted(c)

SpecHist == Init /\ [][NextHist]_vars

\* The callers at work, and those whose call has returned.
Working == BagToSet(calls)
Returned == {c \in Working : c.pc = "done"}

\* C1: whenever a call of value() on a BaseUnit has returned, whatever the
\* variant of the receiver, the returned Value has magnitude 1.0 and its
\* base-unit reference is the address of the receiver itself.
C1_BaseUnitValueIsSelf ==
    \A c \in Returned :
        c.recv \in DOMAIN base => c.ret.mag = 1 /\ c.ret.ref = c.recv

\* C1 happens: calls on two live BaseUnits of different variants have returned.
C1_Witness ==
    \E c, d \in Returned :
        /\ c.recv \in DOMAIN base /\ d.recv \in DOMAIN base
        /\ base[c.recv] = "Kilogram" /\ base[d.recv] = "Metre"

\* C2: whenever a call of value() on a Unit has returned, the returned Value
\* has magnitude 1.0 and its base-unit reference is the Unit's def; calls on
\* Units with the same def returned the same Value, whatever their symbols and
\* names.
C2_UnitValueIsDef ==
    /\ \A c \in Returned :
          c.recv \in DOMAIN units => c.ret = [mag |-> 1, ref |-> units[c.recv].def]
    /\ \A c, d \in Returned :
          /\ c.recv \in DOMAIN units /\ d.recv \in DOMAIN units
          /\ units[c.recv].def = units[d.recv].def
          => c.ret = d.ret

\* C2 happens: calls have returned on two Units of the same def that differ in
\* symbol and in name.
C2_Witness ==
    \E c, d \in Returned :
        /\ c.recv \in DOMAIN units /\ d.recv \in DOMAIN units
        /\ units[c.recv].def = units[d.recv].def
        /\ units[c.recv].symbol # units[d.recv].symbol
        /\ units[c.recv].name # units[d.recv].name

\* C3: no step changes the symbol, the name or the def of a Unit that exists
\* before and after the step.
C3_FieldsImmutable ==
    [][\A u \in DOMAIN units \cap DOMAIN units' : units'[u] = units[u]]_vars

\* C4: a step that constructs a Unit u2 leaves every BaseUnit and every
\* existing Unit as it was, and for every existing Unit u1 with the def of u2,
\* value() on u1 and on u2 is magnitude 1.0 with a reference to that same
\* BaseUnit.
C4_SharingWithoutCorruption ==
    [][\A u2 \in DOMAIN units' \ DOMAIN units :
          /\ base' = base
          /\ \A u1 \in DOMAIN units : u1 \in DOMAIN units' /\ units'[u1] = units[u1]
          /\ \A u1 \in DOMAIN units :
                units[u1].def = units'[u2].def =>
                    /\ Unit_value(units'[u1]) = [mag |-> 1, ref |-> units'[u2].def]
                    /\ Unit_value(units'[u2]) = [mag |-> 1, ref |-> units'[u2].def]
                    /\ units'[u2].def \in DOMAIN base'
      ]_vars

\* C4 happens: two Units with different symbols share one def.
C4_Witness ==
    \E u1, u2 \in DOMAIN units :
        /\ u1 # u2
        /\ units[u1].def = units[u2].def
        /\ units[u1].symbol # units[u2].symbol

\* C5: the def of every Unit and the reference of every returned Value is the
\* address of a live BaseUnit of one of the enum's variants (not a freed
\* address, not the address of a Unit), so value() on a Unit yields a BaseUnit
\* in one step.
C5_ReferencesLive ==
    /\ \A u \in DOMAIN units :
          /\ units[u].def \in DOMAIN base
          /\ base[units[u].def] \in BaseUnit
          /\ Unit_value(units[u]).ref \in DOMAIN base
    /\ \A c \in Returned :
          /\ c.ret \in Value
          /\ c.ret.ref \in DOMAIN base
          /\ base[c.ret.ref] \in BaseUnit

\* C5 happens: a Value returned by a Unit is held while the Unit and a second
\* BaseUnit are alive.
C5_Witness ==
    \E c \in Returned :
        /\ c.recv \in DOMAIN units
        /\ \E a \in DOMAIN base : a # c.ret.ref

\* C6: any two live BaseUnits of the same variant, and any two Units defined
\* against BaseUnits of the same variant, yield the same base-unit reference.
C6_VariantIsIdentity ==
    /\ \A a1, a2 \in DOMAIN base :
          base[a1] = base[a2] => BaseUnit_value(a1).ref = BaseUnit_value(a2).ref
    /\ \A u1, u2 \in DOMAIN units :
          base[units[u1].def] = base[units[u2].def]
          => Unit_value(units[u1]).ref = Unit_value(units[u2]).ref

\* C7: the variants of BaseUnit are exactly Metre, Second and Kilogram, three
\* of them, and every live BaseUnit is one of these.
C7_VariantsClosed ==
    /\ BaseUnit = {"Metre", "Second", "Kilogram"}
    /\ Cardinality(BaseUnit) = 3
    /\ \A a \in DOMAIN base : base[a] \in {"Metre", "Second", "Kilogram"}

\* C7 happens: BaseUnits of two variants are alive together.
C7_Witness ==
    \E a1, a2 \in DOMAIN base : base[a1] = "Second" /\ base[a2] = "Kilogram"

\* C8: a caller that holds a receiver can always complete its call of value(),
\* and every call that has returned has returned a Value.
C8_ValueTotal ==
    \A c \in Working :
        /\ c.pc = "borrowed" => ENABLED Call(c)
        /\ c.pc = "done" => c.ret \in Value

\* C8 happens: a call has returned on a Unit whose symbol and name are empty.
C8_Witness ==
    \E c \in Returned :
        /\ c.recv \in DOMAIN units
        /\ units[c.recv].symbol = "" /\ units[c.recv].name = ""

\* C9: while callers hold receivers, each receiver stays alive and keeps the
\* value it had when it was borrowed, every call that has returned has
\* returned what the call returns on its own at the moment of the borrow, and
\* no step of a caller changes a BaseUnit or a Unit.
C9_ConcurrentCalls ==
    /\ [](\A c \in Working :
            /\ c.recv \in DOMAIN base \cup DOMAIN units
            /\ value(c.recv) = c.alone
            /\ c.pc = "done" => c.ret = c.alone)
    /\ [][calls' # calls => base' = base /\ units' = units]_vars

\* C9 happens: two callers have called value() on the same Unit and hold
\* their Values at the same time.
C9_Witness ==
    \E c \in Returned : c.recv \in DOMAIN units /\ CopiesIn(c, calls) = 2

\* C10: a call of value() that has returned on the receiver of the remembered
\* earlier call has returned the same magnitude and the same reference.
C10_SameResultEveryCall ==
    \A c \in Returned : c.recv = prev.recv => c.ret = prev.ret
====
